---- MODULE Spec2Model ----
(***************************************************************************)
(* A model of climate_check.py: the per-station CSV parser load_smhi_csv,  *)
(* the aggregation fold load_data with largest_consecutive_block, and the  *)
(* download batch download_data / download_station_data.                   *)
(*                                                                         *)
(* Numbers.  Every float of the program is a pair <<n, d>>, the exact      *)
(* fraction n/d counted in tenths (-3.2 is <<-32, 1>>), d = 0 for the      *)
(* values a float division by zero produces: <<0, 0>> is NaN, <<1, 0>> and *)
(* <<-1, 0>> are the infinities.  Python's None is the pair <<0, -1>>.     *)
(* Sums are exact: the rounding of IEEE doubles is not modelled.           *)
(*                                                                         *)
(* Text.  A line of a station file is the sequence of its ';'-separated    *)
(* columns, each column a token [k, v]:                                    *)
(*   "empty"     the empty string                                          *)
(*   "num"       a decimal number, v its value in tenths                   *)
(*   "datetime"  "YYYY-MM-01 hh:mm:ss", v the month's place in the index   *)
(*   "date"      "YYYY-MM-01", v the month's place in the index            *)
(*   "text"      any other text, v tells texts apart                       *)
(*   "longitud"  a text that contains 'longitud' in some case              *)
(***************************************************************************)
EXTENDS Integers, Sequences, FiniteSets, TLC

VARIABLES
    \* load_smhi_csv
    lines,      \* the file's lines
    pos,        \* the place in lines of the next line of the loop (1-based)
    csv,        \* the locals: bound, times, temps, altitude, latitude, longitude, prevline
    res,        \* what the call returned
    ppc,        \* "idle" | "call" | "scan" | "returned" | "raised"
    \* load_data
    globs,      \* the station files, in glob's order
    i,          \* how many of them the loop has folded
    total,      \* the aggregate table, month -> row
    pos_corr,   \* the position samples
    longtemp,   \* the local longtemp after the last fold
    quick_test, \* options.quick_test
    none_add,   \* what float + None does in the installed pandas: "TypeError" | "NaN"
    pc,         \* "idle" | "fold" | "finalized" | "done" | "crashed"
    \* download_data
    stations,   \* stations_data['station'], a sequence of station ids
    disk,       \* smhi_data/<id>.csv: station id -> content
    task,       \* station's place in the list -> "queued" | "running" | "ok" | "failed" | "raised"
    yielded,    \* how many results the loop over executor.map has taken
    dpc         \* "idle" | "start" | "pool" | "done" | "aborted"

parse_vars == <<lines, pos, csv, res, ppc>>
load_vars == <<globs, i, total, pos_corr, longtemp, quick_test, none_add, pc>>
fetch_vars == <<stations, disk, task, yielded, dpc>>
vars == <<lines, pos, csv, res, ppc, globs, i, total, pos_corr, longtemp,
          quick_test, none_add, pc, stations, disk, task, yielded, dpc>>

----------------------------------------------------------------------------
(* Bounds *)

\* months in the monthly index (the program's runs from 1700-01 to today)
NMonths == 26
\* station files in smhi_data/
NumStations == 2
\* rows in the run of valid rows of a parsed file, and lines after the run
MaxRun == 5
MaxSuffix == 2
\* stations in the station list, and threads of the pool (20 in line 55, fewer
\* here so that the list is longer than the pool)
NumListed == 4
PoolWidth == 2

----------------------------------------------------------------------------
(* Numbers *)

NaN == <<0, 0>>
None == <<0, -1>>
Num(n) == <<n, 1>>

IsNaN(x) == x = NaN
IsNone(x) == x = None

Abs(n) == IF n < 0 THEN -n ELSE n
Sign(n) == IF n < 0 THEN -1 ELSE IF n > 0 THEN 1 ELSE 0

RECURSIVE Gcd(_, _)
Gcd(a, b) == IF b = 0 THEN a ELSE Gcd(b, a % b)

\* the float n/d, d >= 0
Frac(n, d) ==
    IF d = 0 THEN <<Sign(n), 0>>
    ELSE LET g == Gcd(Abs(n), d) IN <<n \div g, d \div g>>

\* float + float and float - float (neither is None)
FAdd(x, y) ==
    IF IsNaN(x) \/ IsNaN(y) THEN NaN
    ELSE IF x[2] = 0 /\ y[2] = 0 THEN (IF x[1] = y[1] THEN x ELSE NaN)
    ELSE IF x[2] = 0 THEN x
    ELSE IF y[2] = 0 THEN y
    ELSE Frac(x[1] * y[2] + y[1] * x[2], x[2] * y[2])

FNeg(x) == <<-x[1], x[2]>>
FSub(x, y) == FAdd(x, FNeg(y))

\* FDiv with a zero where the count is zero
FDivZeroForEmpty(x, n) ==
    IF n = 0 THEN Num(0)
    ELSE IF IsNaN(x) THEN NaN
    ELSE IF x[2] = 0 THEN x
    ELSE Frac(x[1], x[2] * n)

\* float / count
FDiv(x, n) ==
    IF IsNaN(x) THEN NaN
    ELSE IF x[2] = 0 THEN x
    ELSE Frac(x[1], x[2] * n)

\* float > k, k in tenths; NaN compares False
FGt(x, k) ==
    /\ ~IsNaN(x)
    /\ IF x[2] = 0 THEN x[1] > 0 ELSE x[1] > k * x[2]

----------------------------------------------------------------------------
(* Text *)

Tok(k, v) == [k |-> k, v |-> v]
Empty == Tok("empty", 0)
Text == Tok("text", 0)
Longitud == Tok("longitud", 0)
NumTok(n) == Tok("num", n)
DateTok(m) == Tok("date", m)
DateTimeTok(m) == Tok("datetime", m)

\* float(c)
CanFloat(c) == c.k = "num"
Float(c) == Num(c.v)

\* time.partition(' ')[0]
Partition(c) == IF c.k = "datetime" THEN DateTok(c.v) ELSE c

\* 'longitud' in prevline.lower()
HasLongitud(line) == \E j \in DOMAIN line : line[j].k = "longitud"

\* cols[-3:]
Last3(cols) ==
    IF Len(cols) <= 3 THEN cols ELSE SubSeq(cols, Len(cols) - 2, Len(cols))

----------------------------------------------------------------------------
(* load_smhi_csv *)

\* the locals before the loop: times and temps are not assigned yet
Locals0 ==
    [bound |-> FALSE, times |-> <<>>, temps |-> <<>>,
     altitude |-> None, latitude |-> None, longitude |-> None,
     prevline |-> <<>>]

\* the except clause, then prevline = line
Handler(s, line) ==
    [s EXCEPT !.bound = TRUE, !.times = <<>>, !.temps = <<>>, !.prevline = line]

\* times.append(date); temps.append(temp); prevline = line
AppendPoint(s, line, date, temp) ==
    [s EXCEPT !.times = Append(@, date), !.temps = Append(@, temp),
              !.prevline = line]

\* one pass of the loop body over `line`
Row(s, line) ==
    LET cols == line
        meta == HasLongitud(s.prevline)
        l3 == Last3(cols)
        metaRaises == meta /\ ~(Len(l3) = 3 /\ \A j \in 1..3 : CanFloat(l3[j]))
        s1 == IF meta /\ ~metaRaises
              THEN [s EXCEPT !.altitude = Float(l3[1]), !.latitude = Float(l3[2]),
                             !.longitude = Float(l3[3])]
              ELSE s
    IN  IF metaRaises THEN Handler(s, line)
        ELSE IF Len(cols) < 4 THEN Handler(s1, line)
        ELSE IF cols[1].k = "empty" /\ cols[4].k = "empty" THEN s1
        ELSE IF ~CanFloat(cols[4]) THEN Handler(s1, line)
        ELSE IF ~s1.bound THEN Handler(s1, line)
        ELSE AppendPoint(s1, line, Partition(cols[1]), Float(cols[4]))

\* pd.DatetimeIndex(times) parses every entry; '' is NaT (0 here)
CanIndex(times) == \A j \in DOMAIN times : times[j].k \in {"date", "empty"}
DatetimeIndex(times) ==
    [j \in DOMAIN times |-> IF times[j].k = "date" THEN times[j].v ELSE 0]

Raised ==
    [ok |-> FALSE, station |-> Empty, index |-> <<>>, temp |-> <<>>,
     altitude |-> None, latitude |-> None, longitude |-> None]

\* lines 88-94: the frame and the returned dict, or the exception of line 88
Result(flines, s) ==
    IF ~s.bound \/ ~CanIndex(s.times) THEN Raised
    ELSE [ok |-> TRUE, station |-> flines[2][1],
          index |-> DatetimeIndex(s.times), temp |-> s.temps,
          altitude |-> s.altitude, latitude |-> s.latitude,
          longitude |-> s.longitude]

RECURSIVE Scan(_, _, _)
Scan(flines, p, s) ==
    IF p > Len(flines) THEN s
    ELSE LET next == Row(s, flines[p]) IN
         \* the test evaluates this pass before the next one starts
         IF next.bound \in BOOLEAN THEN Scan(flines, p + 1, next) ELSE next

\* the whole call
load_smhi_csv(flines) ==
    IF Len(flines) < 2 THEN Raised
    ELSE Result(flines, Scan(flines, 4, Locals0))

(* station files *)
Blank == <<Empty>>
TitleRow == <<Text, Text, Text, Text>>
NameRow(id) == <<Tok("text", id), NumTok(id), Text, NumTok(20)>>
MarkerRow == <<Text, Text, Text, Text, Longitud>>
MetaRow(alt, lat, lon) ==
    <<DateTimeTok(1), DateTimeTok(NMonths), NumTok(alt), NumTok(lat), NumTok(lon)>>
ColumnRow == <<Text, Text, Text, Text, Text, Empty, Text>>
\* "1913-01-01 00:00:01;1913-02-01 00:00:00;1913-01;-11.0;G;;"
DataRow(m, t) ==
    <<DateTimeTok(m), DateTimeTok(m + 1), Text, NumTok(t), Text, Empty, Empty>>
\* "2001-01-01;;;-3.2;;100.0;59.5;18.0"
PointRow ==
    <<DateTok(1), Empty, Empty, NumTok(-32), Empty, NumTok(1000), NumTok(595),
      NumTok(180)>>
EmptyRow == <<Empty, Empty, Empty, Empty, Empty, Empty, Empty>>
BadNumberRow == <<DateTimeTok(1), DateTimeTok(2), Text, Text, Text, Empty, Empty>>
BadDateRow == <<Text, Text, Text, NumTok(17), Text, Empty, Empty>>

LineKinds ==
    {Blank, MarkerRow, MetaRow(1000, 595, 180), PointRow, EmptyRow,
     BadNumberRow, BadDateRow}

SeqsUpTo(S, n) == UNION {[1..k -> S] : k \in 0..n}

\* rows of months lo..lo+n-1, month m reading 10 * m tenths
RECURSIVE RunRows(_, _)
RunRows(lo, n) ==
    IF n = 0 THEN <<>> ELSE <<DataRow(lo, 10 * lo)>> \o RunRows(lo + 1, n - 1)

\* what stands between the three header lines and the rows of a file
Prefixes == {<<>>, <<Blank>>, <<MarkerRow>>, <<MarkerRow, MetaRow(1000, 595, 180)>>}

ParseInputs ==
    {<<TitleRow>>} \cup
    {<<TitleRow, NameRow(1), h3>> \o pre \o RunRows(2, n) \o suf :
        h3 \in {Blank, MarkerRow},
        pre \in Prefixes,
        n \in 0..MaxRun,
        suf \in SeqsUpTo(LineKinds, MaxSuffix)}

ParseInit ==
    /\ lines \in ParseInputs
    /\ pos = 0
    /\ csv = Locals0
    /\ res = Raised
    /\ ppc = "call"

\* lines 68-71
Open ==
    /\ ppc = "call"
    /\ IF Len(lines) < 2
       THEN /\ ppc' = "raised"
            /\ UNCHANGED <<pos, csv, res>>
       ELSE /\ ppc' = "scan"
            /\ pos' = 4
            /\ csv' = Locals0
            /\ UNCHANGED res
    /\ UNCHANGED <<lines, load_vars, fetch_vars>>

\* lines 72-87, one line of the file
ScanLine ==
    /\ ppc = "scan"
    /\ pos <= Len(lines)
    /\ csv' = Row(csv, lines[pos])
    /\ pos' = pos + 1
    /\ UNCHANGED <<lines, res, ppc, load_vars, fetch_vars>>

\* lines 88-94
Return ==
    /\ ppc = "scan"
    /\ pos > Len(lines)
    /\ res' = Result(lines, csv)
    /\ ppc' = IF res'.ok THEN "returned" ELSE "raised"
    /\ UNCHANGED <<lines, pos, csv, load_vars, fetch_vars>>

----------------------------------------------------------------------------
(* load_data *)

Months == 1..NMonths

\* lines 131-138: every sum 0.0, every count 0
Row0 ==
    [temp |-> Num(0), tempnum |-> 0, altitude |-> Num(0), latitude |-> Num(0),
     longitude |-> Num(0), diff |-> Num(0), diffnum |-> 0]

\* total['raw'] = ser: the series put on the monthly index, NaN where it has no row
Unique(index) ==
    \A j, k \in DOMAIN index : index[j] = index[k] => j = k
Aligned(index, vals) ==
    [m \in Months |->
        IF \E j \in DOMAIN index : index[j] = m
        THEN vals[CHOOSE j \in DOMAIN index : index[j] = m]
        ELSE NaN]

\* has_data = total['raw'] > -1e3
HasData(x) == FGt(x, -10000)

\* df['temp'].diff(): each row minus the row before it
Diff(temp) ==
    [j \in DOMAIN temp |-> IF j = 1 THEN NaN ELSE FSub(temp[j], temp[j - 1])]

\* sparse.sp_index.to_block_index(): the runs of non-NaN values, each <<first
\* month, length>>, as list(zip(spidx.blocs, spidx.blengths)) gives them
RECURSIVE RunLength(_, _)
RunLength(ser, m) ==
    IF m > NMonths \/ IsNaN(ser[m]) THEN 0 ELSE 1 + RunLength(ser, m + 1)

RECURSIVE BlocksFrom(_, _)
BlocksFrom(ser, m) ==
    IF m > NMonths THEN <<>>
    ELSE IF IsNaN(ser[m]) THEN BlocksFrom(ser, m + 1)
    ELSE LET l == RunLength(ser, m) IN
         <<<<m, l>>>> \o BlocksFrom(ser, m + l)

block_locs(ser) == BlocksFrom(ser, 1)

\* max(block_locs, key=lambda e: e[1]): the first of the longest
RECURSIVE MaxByLength(_)
MaxByLength(q) ==
    IF Len(q) = 1 THEN q[1]
    ELSE LET rest == MaxByLength(Tail(q)) IN
         IF q[1][2] >= rest[2] THEN q[1] ELSE rest

\* a series cut out of the monthly index: the month of its first value, and its values
NoBlock == [first |-> 1, vals |-> <<>>]

\* ser.iloc[i:(i+l-1)]
Slice(ser, b, l) ==
    [first |-> b, vals |-> [j \in 1..(l - 1) |-> ser[b + j - 1]]]

largest_consecutive_block(ser) ==
    LET locs == block_locs(ser) IN
    IF locs = <<>> THEN NoBlock
    ELSE LET largest == MaxByLength(locs) IN Slice(ser, largest[1], largest[2])

\* TrimYears without the trimming
TrimNothing(block) == block

\* lines 161-163: l -= l%12; longtemp.iloc[:l]
TrimYears(block) ==
    LET l == Len(block.vals) IN
    [block EXCEPT !.vals = SubSeq(@, 1, l - (l % 12))]

RECURSIVE SumSeq(_)
SumSeq(q) == IF q = <<>> THEN Num(0) ELSE FAdd(q[1], SumSeq(Tail(q)))
Mean(q) == FDiv(SumSeq(q), Len(q))

\* AddTemp with = for +=
AddTempAssigning(t, raw) ==
    [m \in Months |->
        IF HasData(raw[m])
        THEN [t[m] EXCEPT !.temp = raw[m], !.tempnum = @ + 1]
        ELSE t[m]]

\* lines 149-153
AddTemp(t, raw) ==
    [m \in Months |->
        IF HasData(raw[m])
        THEN [t[m] EXCEPT !.temp = FAdd(@, raw[m]), !.tempnum = @ + 1]
        ELSE t[m]]

\* lines 155-157 where float + None gives NaN, and with a float always
AddPosition(t, raw, r) ==
    LET plus(x, y) == IF IsNone(y) THEN NaN ELSE FAdd(x, y) IN
    [m \in Months |->
        IF HasData(raw[m])
        THEN [t[m] EXCEPT !.altitude = plus(@, r.altitude),
                          !.latitude = plus(@, r.latitude),
                          !.longitude = plus(@, r.longitude)]
        ELSE t[m]]

\* lines 166-170
AddDiff(t, draw) ==
    [m \in Months |->
        IF HasData(draw[m])
        THEN [t[m] EXCEPT !.diff = FAdd(@, draw[m]), !.diffnum = @ + 1]
        ELSE t[m]]

\* Finalized with the differences over the temperatures' count
FinalizedBySharedCount(t) ==
    [m \in Months |->
        [t[m] EXCEPT !.diff = FDiv(@, t[m].tempnum),
                     !.temp = FDiv(@, t[m].tempnum),
                     !.altitude = FDiv(@, t[m].tempnum),
                     !.latitude = FDiv(@, t[m].tempnum),
                     !.longitude = FDiv(@, t[m].tempnum)]]

\* lines 171-175
Finalized(t) ==
    [m \in Months |->
        [t[m] EXCEPT !.diff = FDiv(@, t[m].diffnum),
                     !.temp = FDiv(@, t[m].tempnum),
                     !.altitude = FDiv(@, t[m].tempnum),
                     !.latitude = FDiv(@, t[m].tempnum),
                     !.longitude = FDiv(@, t[m].tempnum)]]

\* line 155 raises: a float Series with rows in it plus None
NoneRaises(raw, r, mode) ==
    /\ IsNone(r.altitude)
    /\ mode = "TypeError"
    /\ \E m \in Months : HasData(raw[m])

\* lines 159-164: the block, trimmed when a sample is recorded
LongTemp(raw) ==
    LET block == largest_consecutive_block(raw) IN
    IF Len(block.vals) >= 12 THEN TrimYears(block) ELSE block

Sample(lt, r) ==
    [avg_temp |-> Mean(lt.vals), altitude |-> r.altitude, latitude |-> r.latitude]

(* station files: the header block of an SMHI file, then a row per month *)
StationFile(id, marker, meta, first, last, gap, base, step) ==
    LET present == {m \in first..last : m # gap}
        RECURSIVE rows(_)
        rows(m) ==
            IF m > last THEN <<>>
            ELSE (IF m \in present THEN <<DataRow(m, base + step * m)>> ELSE <<>>)
                 \o rows(m + 1)
    IN  <<TitleRow, NameRow(id), Blank>>
        \o (IF marker THEN <<MarkerRow, MetaRow(meta[1], meta[2], meta[3])>> ELSE <<>>)
        \o <<Blank, ColumnRow>>
        \o rows(first)

Uppsala == <<1000, 595, 180>>
Abisko == <<3880, 683, 188>>

Catalogue ==
    { StationFile(1, TRUE, Uppsala, 1, NMonths, 0, 0, 0),
      StationFile(2, TRUE, Abisko, 1, NMonths, 0, 100, 0),
      StationFile(3, TRUE, Uppsala, 1, 12, 0, -50, 3),
      StationFile(4, TRUE, Abisko, 2, 14, 0, 20, 3),
      StationFile(5, TRUE, Uppsala, 1, NMonths, 6, 30, 2),
      StationFile(6, FALSE, Uppsala, 1, 14, 0, 10, 3),
      StationFile(7, TRUE, Abisko, 1, 25, 13, 40, 1),
      StationFile(8, TRUE, Uppsala, 1, 2, 0, 70, 5) \o <<BadDateRow>> }

\* lines 130-138: the table before the loop
Total0 == [m \in Months |-> Row0]

Injective(q) == \A j, k \in DOMAIN q : q[j] = q[k] => j = k

LoadInit ==
    /\ globs \in {g \in SeqsUpTo(Catalogue, NumStations) : Injective(g)}
    /\ i = 0
    /\ total = Total0
    /\ pos_corr = <<>>
    /\ longtemp = NoBlock
    /\ quick_test \in BOOLEAN
    /\ none_add \in {"TypeError", "NaN"}
    /\ pc = "fold"

\* the two series a station file puts on the monthly index
Raw(r) == Aligned(r.index, r.temp)
DiffRaw(r) == Aligned(r.index, Diff(r.temp))

\* line 144 raises, or the assignment of line 150 does (rows with the same date)
LoadRaises(r) == ~r.ok \/ ~Unique(r.index)

\* lines 149-157 and 166-170: the table with one station folded in
FoldStation(t, r) ==
    AddDiff(AddPosition(AddTemp(t, Raw(r)), Raw(r), r), DiffRaw(r))

\* lines 141-170, one station file
Fold ==
    /\ pc = "fold"
    /\ i < Len(globs)
    /\ ~(quick_test /\ i > 50)
    /\ LET r == load_smhi_csv(globs[i + 1])
           lt == LongTemp(Raw(r))
       IN  IF LoadRaises(r)
           THEN /\ pc' = "crashed"
                /\ UNCHANGED <<i, total, pos_corr, longtemp>>
           ELSE IF NoneRaises(Raw(r), r, none_add)
           THEN /\ pc' = "crashed"
                /\ total' = AddTemp(total, Raw(r))
                /\ UNCHANGED <<i, pos_corr, longtemp>>
           ELSE /\ total' = FoldStation(total, r)
                /\ longtemp' = lt
                /\ pos_corr' = IF Len(lt.vals) >= 12
                               THEN Append(pos_corr, Sample(lt, r))
                               ELSE pos_corr
                /\ i' = i + 1
                /\ UNCHANGED pc
    /\ UNCHANGED <<globs, quick_test, none_add, parse_vars, fetch_vars>>

\* lines 171-176
Finalize ==
    /\ pc = "fold"
    /\ i = Len(globs) \/ (quick_test /\ i > 50)
    /\ total' = Finalized(total)
    /\ pc' = "finalized"
    /\ UNCHANGED <<globs, i, pos_corr, longtemp, quick_test, none_add,
                   parse_vars, fetch_vars>>

\* reg.fit of line 111 takes at least one sample, and no None in it
CanFit(samples) ==
    /\ samples # <<>>
    /\ \A j \in DOMAIN samples :
           ~IsNone(samples[j].altitude) /\ ~IsNone(samples[j].latitude)

\* lines 177-178; the column adjusted_temp, a least-squares fit over the reals,
\* is not part of the table modelled here
PosAdjust ==
    /\ pc = "finalized"
    /\ pc' = IF CanFit(pos_corr) THEN "done" ELSE "crashed"
    /\ UNCHANGED <<globs, i, total, pos_corr, longtemp, quick_test, none_add,
                   parse_vars, fetch_vars>>

----------------------------------------------------------------------------
(* download_data, download_station_data *)

Absent == <<"absent", 0>>
Old == <<"old", 0>>
Partial(id) == <<"partial", id>>
Data(id) == <<"data", id>>

Ids == 1..NumListed

\* the station list the server serves: stations 1..n
Listing(n) == [k \in 1..n |-> k]

\* line 38: the file a station's data goes to
filename(station) == station

\* the futures that are running
Running == {k \in DOMAIN task : task[k] = "running"}

\* AfterException without the except clause: the exception is the future's result
AfterExceptionUncaught(k) == "raised"

\* lines 39-42: what the call leaves behind when urlretrieve raises; the except
\* clause prints, the call returns
AfterException(k) == "failed"

FetchInit ==
    /\ stations \in {Listing(n) : n \in 0..NumListed}
    /\ disk \in [Ids -> {Absent, Old}]
    /\ task = <<>>
    /\ yielded = 0
    /\ dpc = "start"

\* line 48 raises: nothing is erased
ListFails ==
    /\ dpc = "start"
    /\ dpc' = "aborted"
    /\ UNCHANGED <<stations, disk, task, yielded, parse_vars, load_vars>>

\* lines 48-56: the list is there, the old files go, every station is submitted
Submit ==
    /\ dpc = "start"
    /\ disk' = [id \in Ids |-> Absent]
    /\ task' = [k \in DOMAIN stations |-> "queued"]
    /\ dpc' = "pool"
    /\ UNCHANGED <<stations, yielded, parse_vars, load_vars>>

\* a thread of the pool takes the oldest work item: lines 36-38
StartTask(k) ==
    /\ dpc = "pool"
    /\ k \in DOMAIN task
    /\ task[k] = "queued"
    /\ \A j \in 1..(k - 1) : task[j] # "queued"
    /\ Cardinality(Running) < PoolWidth
    /\ task' = [task EXCEPT ![k] = "running"]
    /\ UNCHANGED <<stations, disk, yielded, dpc, parse_vars, load_vars>>

\* line 40 returns
Retrieved(k) ==
    /\ dpc = "pool"
    /\ k \in DOMAIN task
    /\ task[k] = "running"
    /\ disk' = [disk EXCEPT ![filename(stations[k])] = Data(stations[k])]
    /\ task' = [task EXCEPT ![k] = "ok"]
    /\ UNCHANGED <<stations, yielded, dpc, parse_vars, load_vars>>

\* line 40 raises, before the file is opened or with part of it written
RetrieveFails(k) ==
    /\ dpc = "pool"
    /\ k \in DOMAIN task
    /\ task[k] = "running"
    /\ \E left \in {Absent, Partial(stations[k])} :
           disk' = [disk EXCEPT ![filename(stations[k])] = left]
    /\ task' = [task EXCEPT ![k] = AfterException(k)]
    /\ UNCHANGED <<stations, yielded, dpc, parse_vars, load_vars>>

\* lines 56-57: the loop takes the next result, in the list's order; a result
\* that is an exception ends download_data
NextResult ==
    /\ dpc = "pool"
    /\ yielded < Len(stations)
    /\ task[yielded + 1] \in {"ok", "failed", "raised"}
    /\ IF task[yielded + 1] = "raised"
       THEN dpc' = "aborted" /\ UNCHANGED yielded
       ELSE yielded' = yielded + 1 /\ UNCHANGED dpc
    /\ UNCHANGED <<stations, disk, task, parse_vars, load_vars>>

\* line 58
Finish ==
    /\ dpc = "pool"
    /\ yielded = Len(stations)
    /\ dpc' = "done"
    /\ UNCHANGED <<stations, disk, task, yielded, parse_vars, load_vars>>

----------------------------------------------------------------------------
(* Specifications *)

ParseIdle ==
    /\ lines = <<>>
    /\ pos = 0
    /\ csv = Locals0
    /\ res = Raised
    /\ ppc = "idle"

LoadIdle ==
    /\ globs = <<>>
    /\ i = 0
    /\ total = Total0
    /\ pos_corr = <<>>
    /\ longtemp = NoBlock
    /\ quick_test = FALSE
    /\ none_add = "TypeError"
    /\ pc = "idle"

FetchIdle ==
    /\ stations = <<>>
    /\ disk = [id \in Ids |-> Absent]
    /\ task = <<>>
    /\ yielded = 0
    /\ dpc = "idle"

ParseNext == Open \/ ScanLine \/ Return
ParseStart == ParseInit /\ LoadIdle /\ FetchIdle
SpecParse == ParseStart /\ [][ParseNext]_vars

LoadNext == Fold \/ Finalize \/ PosAdjust
LoadStart == LoadInit /\ ParseIdle /\ FetchIdle
SpecLoad == LoadStart /\ [][LoadNext]_vars

FetchNext ==
    \/ ListFails
    \/ Submit
    \/ \E k \in DOMAIN task : StartTask(k)
    \/ \E k \in DOMAIN task : Retrieved(k)
    \/ \E k \in DOMAIN task : RetrieveFails(k)
    \/ NextResult
    \/ Finish

FetchStart == FetchInit /\ ParseIdle /\ LoadIdle

\* the pool's threads run, every started download returns or raises, and the
\* main thread goes on when it can
SpecFetch ==
    /\ FetchStart
    /\ [][FetchNext]_vars
    /\ WF_vars(Submit)
    /\ \A k \in Ids : WF_vars(StartTask(k))
    /\ \A k \in Ids : WF_vars(Retrieved(k) \/ RetrieveFails(k))
    /\ WF_vars(NextResult)
    /\ WF_vars(Finish)

----------------------------------------------------------------------------
(* The aggregation claims, under SpecLoad *)

\* the station the k-th file holds, and the two stations of the 0.0 / 10.0 scenario
Station(k) == load_smhi_csv(globs[k])
StationA == StationFile(1, TRUE, Uppsala, 1, NMonths, 0, 0, 0)
StationB == StationFile(2, TRUE, Abisko, 1, NMonths, 0, 100, 0)

\* the table holds sums (the loop is over) or finalized values
AllFolded == pc = "fold" /\ i = Len(globs)
IsFinal == pc \in {"finalized", "done"}

\* a station has a valid reading for month m
ValidIn(raw, m) == m \in Months /\ HasData(raw[m])

\* the length of the unbroken run of valid readings that ends with month m, and
\* the length of the station's longest such run
RECURSIVE RunEndingAt(_, _)
RunEndingAt(raw, m) ==
    IF ValidIn(raw, m) THEN 1 + RunEndingAt(raw, m - 1) ELSE 0
RECURSIVE LongestUpTo(_, _)
LongestUpTo(raw, m) ==
    IF m = 0 THEN 0
    ELSE LET here == RunEndingAt(raw, m)
             before == LongestUpTo(raw, m - 1)
         IN  IF here > before THEN here ELSE before
LongestRun(raw) == LongestUpTo(raw, NMonths)

\* the files in the order of their station ids, and the table after folding a
\* sequence of files into t
FileId(f) == f[2][1].v
RECURSIVE SortedById(_)
SortedById(S) ==
    IF S = {} THEN <<>>
    ELSE LET f == CHOOSE f \in S : \A g \in S : FileId(f) <= FileId(g) IN
         <<f>> \o SortedById(S \ {f})
RECURSIVE FoldAll(_, _)
FoldAll(t, q) ==
    IF q = <<>> THEN t
    ELSE FoldAll(FoldStation(t, load_smhi_csv(q[1])), Tail(q))
Range(q) == {q[k] : k \in DOMAIN q}

\* sums and counts over the first k series of a sequence of series, at month m
RECURSIVE SumAt(_, _, _)
SumAt(sers, k, m) ==
    IF k = 0 THEN Num(0)
    ELSE IF HasData(sers[k][m]) THEN FAdd(SumAt(sers, k - 1, m), sers[k][m])
    ELSE SumAt(sers, k - 1, m)
CountAt(sers, m) == Cardinality({k \in DOMAIN sers : HasData(sers[k][m])})

RECURSIVE RawsUpTo(_)
RawsUpTo(k) == IF k = 0 THEN <<>> ELSE Append(RawsUpTo(k - 1), Raw(Station(k)))
RECURSIVE DiffRawsUpTo(_)
DiffRawsUpTo(k) ==
    IF k = 0 THEN <<>> ELSE Append(DiffRawsUpTo(k - 1), DiffRaw(Station(k)))

\* C2: after finalization each month's temperature is the sum of the valid
\* readings of the stations that reported the month over the number of those
\* stations, and each month's difference is the sum of the contributed
\* differences over the number of stations that contributed one.
C2_AveragesOverOwnCounts ==
    IsFinal =>
        LET raws == RawsUpTo(Len(globs))
            draws == DiffRawsUpTo(Len(globs))
        IN  \A m \in Months :
                /\ total[m].temp = FDiv(SumAt(raws, Len(globs), m), CountAt(raws, m))
                /\ total[m].tempnum = CountAt(raws, m)
                /\ total[m].diff = FDiv(SumAt(draws, Len(globs), m), CountAt(draws, m))
                /\ total[m].diffnum = CountAt(draws, m)

\* the scenario: 0.0 and 10.0 every month give 5.0, and 0.0 after the first month
C2_Witness ==
    /\ pc = "finalized"
    /\ globs = <<StationA, StationB>>
    /\ \A m \in Months : total[m].temp = Num(50)
    /\ \A m \in Months : m > 1 => total[m].diff = Num(0)
    /\ IsNaN(total[1].diff)

\* C3: a fold adds reading(N) - reading(N-1) to month N's difference sum, and one
\* to its difference count, exactly when the station has a valid reading for N
\* and for N-1.
C3_DiffOfAdjacentMonths ==
    [][(pc = "fold" /\ i' = i + 1) =>
        LET raw == Raw(Station(i + 1)) IN
        \A m \in Months :
            LET both == ValidIn(raw, m) /\ ValidIn(raw, m - 1) IN
            /\ total'[m].diffnum = total[m].diffnum + (IF both THEN 1 ELSE 0)
            /\ total'[m].diff =
                   IF both THEN FAdd(total[m].diff, FSub(raw[m], raw[m - 1]))
                   ELSE total[m].diff]_vars

\* C4: a fold records one position sample when the station's longest unbroken
\* run of valid readings has 12 months or more, and none when it is shorter.
C4_SampleFromTwelveMonths ==
    [][(pc = "fold" /\ i' = i + 1) =>
        LET run == LongestRun(Raw(Station(i + 1))) IN
        /\ run >= 12 => Len(pos_corr') = Len(pos_corr) + 1
        /\ run < 12 => pos_corr' = pos_corr]_vars

C6_ZeroCountIsMissing ==
    [][(pc = "fold" /\ pc' = "finalized") =>
        \A m \in Months :
            /\ total[m].tempnum = 0 =>
                   /\ IsNaN(total'[m].temp) /\ IsNaN(total'[m].altitude)
                   /\ IsNaN(total'[m].latitude) /\ IsNaN(total'[m].longitude)
            /\ total[m].diffnum = 0 => IsNaN(total'[m].diff)
            /\ total[m].tempnum # 0 =>
                   /\ ~IsNaN(total'[m].temp)
                   /\ IsNaN(total'[m].altitude) => IsNaN(total[m].altitude)
                   /\ IsNaN(total'[m].latitude) => IsNaN(total[m].latitude)
                   /\ IsNaN(total'[m].longitude) => IsNaN(total[m].longitude)
            /\ total[m].diffnum # 0 => ~IsNaN(total'[m].diff)]_vars

C6_Witness ==
    /\ pc = "finalized"
    /\ \E m \in Months : total[m].tempnum = 0 /\ IsNaN(total[m].temp)
    /\ \E m \in Months :
           /\ total[m].tempnum # 0 /\ ~IsNaN(total[m].temp)
           /\ total[m].diffnum = 0 /\ IsNaN(total[m].diff)
    /\ \E m \in Months : total[m].diffnum # 0 /\ ~IsNaN(total[m].diff)

\* C9: folding a station whose altitude, latitude and longitude are None does
\* not fail; its temperatures are counted and the positional sums of the months
\* it reports stay what the other stations made them.
C9_NoneMetadataTolerated ==
    [][(pc = "fold" /\ i < Len(globs) /\ ~LoadRaises(Station(i + 1))
            /\ IsNone(Station(i + 1).altitude)) =>
        LET raw == Raw(Station(i + 1)) IN
        /\ pc' = "fold" /\ i' = i + 1
        /\ \A m \in Months :
               /\ total'[m].tempnum =
                      total[m].tempnum + (IF ValidIn(raw, m) THEN 1 ELSE 0)
               /\ total'[m].altitude = total[m].altitude
               /\ total'[m].latitude = total[m].latitude
               /\ total'[m].longitude = total[m].longitude]_vars

----------------------------------------------------------------------------
(* The parser claims, under SpecParse *)

\* a data row whose date or whose number does not parse
IsDate(c) == c.k \in {"date", "datetime"}
Malformed(line) ==
    /\ Len(line) >= 4
    /\ ~(line[1].k = "empty" /\ line[4].k = "empty")
    /\ ~IsDate(line[1]) \/ ~CanFloat(line[4])

\* C7: the pass over a malformed data row leaves no point of the rows before it,
\* and the scan goes on to the next line.
C7_MalformedRowDiscards ==
    [][(ppc = "scan" /\ pos <= Len(lines) /\ Malformed(lines[pos])) =>
        /\ csv'.times = <<>> /\ csv'.temps = <<>>
        /\ ppc' = "scan" /\ pos' = pos + 1]_vars

\* the file of the round trip: three header lines, then the marker row (when
\* it is not the third header line itself) and the data row
RoundTripFile ==
    /\ Len(lines) \in {4, 5}
    /\ lines[Len(lines)] = PointRow
    /\ lines[Len(lines) - 1] = MarkerRow

\* C8: the call returns the one point (2001-01-01, -3.2) and altitude 100.0,
\* latitude 59.5, longitude 18.0, wherever the marker row stands.
C8_RoundTrip ==
    (RoundTripFile /\ ppc \in {"returned", "raised"}) =>
        /\ ppc = "returned"
        /\ res.index = <<1>>
        /\ res.temp = <<Num(-32)>>
        /\ res.altitude = Num(1000)
        /\ res.latitude = Num(595)
        /\ res.longitude = Num(180)

----------------------------------------------------------------------------
(* The download claim, under SpecFetch *)

\* every station's download ran, and every one that succeeded left its file
BatchComplete ==
    /\ dpc = "done"
    /\ \A k \in DOMAIN stations :
           /\ task[k] \in {"ok", "failed"}
           /\ task[k] = "ok" => disk[stations[k]] = Data(stations[k])

\* C10: once the stations are submitted to the pool, whichever downloads fail
\* and however the threads interleave, the batch ends with every download
\* attempted and every successful one in its own file.
C10_FailuresIsolated == (dpc = "pool") ~> BatchComplete

C10_Witness ==
    /\ BatchComplete
    /\ Len(stations) > PoolWidth
    /\ \E k \in DOMAIN stations : task[k] = "failed"
    /\ \E k \in DOMAIN stations : task[k] = "ok"

====
